---- MODULE Spec2Model ----
(***************************************************************************)
(* Model of the RWA AI pricing engine:                                     *)
(*   - ai_pricing/api/routes.py          validate_token, generate_price,   *)
(*     update_data_source                                                  *)
(*   - ai_pricing/core/pricing_engine.py AIPricingEngine.get_asset_price   *)
(*   - ai_pricing/services/data_sources.py DataSourceAdapter.fetch_*       *)
(*   - ai_pricing/core/pricing_engine.py AIPricingEngine.init_vector_store *)
(*     and AIPricingEngine.update_knowledge_base                           *)
(*   - ai_pricing/core/embedding_model.py LightEmbeddingModel.encode       *)
(*                                                                         *)
(* Units: prices are whole currency units; confidence scores and factor    *)
(* weights are in tenths (0.5 is 5, 1.0 is 10).                            *)
(*                                                                         *)
(* A generation output is a sequence of tokens: "FENCE" is the three       *)
(* backticks delimiter, "json" the literal tag text, "ws" whitespace,      *)
(* "prose" text that is not JSON, and "J" the text of one JSON value (the  *)
(* value itself is the variable payload).                                  *)
(***************************************************************************)
EXTENDS Integers, Sequences, FiniteSets, TLC

VARIABLES
    asset_db,        \* routes.py: the module-level asset catalog
    client,          \* engine.client is set (TRUE) or None (FALSE)
    pc,              \* position of the one pricing request in flight
    asset_id,        \* get_asset_price argument
    asset_metadata,  \* get_asset_price argument / local
    task,            \* the four source tasks created at lines 144-147
    ctx,             \* the awaited locals auction_data .. nft_data
    blockchain_data, \* local of lines 155-170
    generation,      \* what the text-generation call did
    result_text,     \* local: the generation output
    payload,         \* the JSON value the "J" token of result_text denotes
    result,          \* what get_asset_price handed back to its caller
    engine,          \* stopped, failed (the constructor raised), initialized
                     \* (init_vector_store has just returned) or running
    embedding_model, \* engine.embedding_model is set (TRUE) or None (FALSE)
    index,           \* engine.index: the in-memory FAISS index
    documents,       \* engine.documents: the in-memory document list
    disk,            \* the directory faiss_index and its two files
    pending,         \* update_knowledge_base calls requested and not yet run
    ukb,             \* the update_knowledge_base call that is running
    log,             \* the calls returned since the store was initialized
    boot,            \* sizes of index and documents after the last initialization
    in_section,      \* update_knowledge_base calls past their append whose
                     \* writes have not ended
    completed,       \* the source tasks in the order they completed (followed
                     \* by JoinSpec only)
    prompt,          \* local prompt_content: the arguments of the template
    api              \* routes.py: API_TOKEN and the last protected request

\* the knowledge store side of the engine
kbvars == <<engine, embedding_model, index, documents, disk, pending, ukb,
            log, boot, in_section>>

vars == <<asset_db, client, pc, asset_id, asset_metadata, task, ctx,
          blockchain_data, generation, result_text, payload, result,
          completed, prompt, api, kbvars>>

(***************************************************************************)
(* Bounds of the model.                                                    *)
(***************************************************************************)
\* longest generation output (in tokens) drawn inside the full pipeline
MaxGenLen == 2
\* longest generation output (in tokens) drawn for the extraction step alone
MaxTextLen == 5

(***************************************************************************)
(* Program constants.                                                      *)
(***************************************************************************)
DefaultInitialPrice == 10000
SamplePrice == 1000
CatalogPrice == 50000
HalfConfidence == 5
FullWeight == 10
VectorDimension == 512

(***************************************************************************)
(* Python values.  A scalar that may be missing from a dict:               *)
(*   t = "absent"  key not in the dict                                     *)
(*   t = "num"     an int/float, value v                                   *)
(*   t = "numstr"  a str that float() accepts, value v                     *)
(*   t = "str"     a str that float() rejects                              *)
(***************************************************************************)
Absent == [t |-> "absent", v |-> 0]
Num(n) == [t |-> "num", v |-> n]
NumStr(n) == [t |-> "numstr", v |-> n]
Str == [t |-> "str", v |-> 0]

\* dict.get(key, default) on an already looked-up slot
PyGet(slot, default) == IF slot.t = "absent" THEN Num(default) ELSE slot

\* Python truthiness of Optional[float]: None and 0.0 are falsy
Truthy(slot) == slot.t # "absent" /\ ~(slot.t = "num" /\ slot.v = 0)

\* float(x): the value, or an exception
PyFloat(slot) ==
    CASE slot.t = "num" -> [raised |-> FALSE, v |-> slot.v]
      [] slot.t = "numstr" -> [raised |-> FALSE, v |-> slot.v]
      [] slot.t = "str" -> [raised |-> TRUE, v |-> 0]
      [] slot.t = "absent" -> [raised |-> TRUE, v |-> 0]

\* pydantic's coercion of a field declared float: numbers and numeric
\* strings pass, anything else (None included) is a ValidationError
PydanticFloat(slot) ==
    IF slot.t \in {"num", "numstr"}
    THEN [raised |-> FALSE, v |-> slot.v]
    ELSE [raised |-> TRUE, v |-> 0]

\* int(x) of a str: the value, or ValueError (the empty string included)
PyInt(slot) ==
    IF slot.t \in {"num", "numstr"}
    THEN [raised |-> FALSE, v |-> slot.v]
    ELSE [raised |-> TRUE, v |-> 0]

(***************************************************************************)
(* Signal sources (data_sources.py).  A record is the dict a fetch_*       *)
(* coroutine returns: {"error": ...} or a payload.  Only the NFT payload   *)
(* has fields the engine reads back (contract_address, token_id).          *)
(***************************************************************************)
Sources == {"auction", "sentiment", "economic", "nft"}

\* the order of the awaits at lines 149-152
AwaitOrder == <<"auction", "sentiment", "economic", "nft">>

ErrRec == [error |-> TRUE, contract_address |-> FALSE, token_id |-> Str]
DataRec == [error |-> FALSE, contract_address |-> FALSE, token_id |-> Str]
NftRec(addr, tok) == [error |-> FALSE, contract_address |-> addr, token_id |-> tok]

\* what the remote end of a source can answer
Responses(s) ==
    IF s = "nft"
    THEN {"exception", "throttled", "no_contract", "with_token", "no_token"}
    ELSE {"exception", "ok"}

\* variant: the coroutine lets the exception of the HTTP call escape
FetchResultPropagating(s, resp) ==
    CASE resp = "exception" -> [raised |-> TRUE, rec |-> ErrRec]
      [] resp = "throttled" -> [raised |-> FALSE, rec |-> ErrRec]
      [] resp = "ok" -> [raised |-> FALSE, rec |-> DataRec]
      [] resp = "no_contract" -> [raised |-> FALSE, rec |-> NftRec(FALSE, Str)]
      [] resp = "with_token" -> [raised |-> FALSE, rec |-> NftRec(TRUE, NumStr(7))]
      [] resp = "no_token" -> [raised |-> FALSE, rec |-> NftRec(TRUE, Str)]

\* fetch_auction_data / fetch_sentiment_analysis / fetch_economic_indicators /
\* fetch_nft_data: the body runs inside try/except Exception, so the coroutine
\* always returns a dict and never raises.
FetchResult(s, resp) ==
    CASE resp = "exception" -> [raised |-> FALSE, rec |-> ErrRec]
      [] resp = "throttled" -> [raised |-> FALSE, rec |-> ErrRec]
      [] resp = "ok" -> [raised |-> FALSE, rec |-> DataRec]
      [] resp = "no_contract" -> [raised |-> FALSE, rec |-> NftRec(FALSE, Str)]
      [] resp = "with_token" -> [raised |-> FALSE, rec |-> NftRec(TRUE, NumStr(7))]
      [] resp = "no_token" -> [raised |-> FALSE, rec |-> NftRec(TRUE, Str)]

NoTask == [st |-> "none", raised |-> FALSE, rec |-> DataRec]
Running == [st |-> "running", raised |-> FALSE, rec |-> DataRec]
Silent == [st |-> "silent", raised |-> FALSE, rec |-> DataRec]
Done(r) == [st |-> "done", raised |-> r.raised, rec |-> r.rec]

EmptyCtx == [s \in {} |-> DataRec]

(***************************************************************************)
(* Asset metadata: the two keys of the dict the engine or the route reads. *)
(***************************************************************************)
Meta(ip, cp) == [initial_price |-> ip, current_price |-> cp]

KnownAssets == {"asset1"}
AssetIds == {"asset1", "asset9"}

\* get_asset_db(): every catalog entry has a float initial_price and no
\* current_price key
InitialAssetDb == [a \in KnownAssets |-> Meta(Num(CatalogPrice), Absent)]

\* PricingRequest.current_price: Optional[float]
RequestPrices == {Absent, Num(500)}

\* metadata dicts a direct caller of get_asset_price may pass
CallerMetadata ==
    { Meta(Absent, Absent), Meta(Num(-20), Absent), Meta(Str, Absent) }

\* lines 135-136: a missing (or empty) metadata is replaced by a default dict
EffectiveMetadata(given, m) ==
    IF given THEN m ELSE Meta(Num(DefaultInitialPrice), Absent)

(***************************************************************************)
(* Generation outputs and the JSON values they may carry.                  *)
(***************************************************************************)
Tokens == {"FENCE", "json", "ws", "prose", "J"}

TextsUpTo(n) == UNION { [1..k -> Tokens] : k \in 0..n }

FactorsMarket == [market |-> FullWeight]
FactorsFallback == [fallback |-> FullWeight]
FactorsError == [error |-> FullWeight]

\* the "factors" member of a JSON object: absent, a str -> number mapping, or
\* a value pydantic rejects for Dict[str, float]
NoFactors == [t |-> "absent", m |-> FactorsMarket]
BadFactors == [t |-> "bad", m |-> FactorsMarket]
Factors(m) == [t |-> "map", m |-> m]

\* a JSON value: an object with some of the three required members, or a
\* value that is not an object (a number, a list, ...)
Obj(p, c, f) == [object |-> TRUE, price |-> p, confidence_score |-> c, factors |-> f]
Scalar == [object |-> FALSE, price |-> Absent, confidence_score |-> Absent,
           factors |-> NoFactors]

WellFormedPayloads ==
    { Obj(Num(120), Num(9), Factors(FactorsMarket)),
      Obj(Num(120), Num(15), Factors(FactorsMarket)),
      Obj(Num(120), Num(-2), Factors(FactorsMarket)),
      Obj(Num(-5), Num(9), Factors(FactorsMarket)) }

IllFormedPayloads ==
    { Obj(Absent, Num(9), Factors(FactorsMarket)),
      Obj(Num(120), Absent, Factors(FactorsMarket)),
      Obj(Num(120), Num(9), NoFactors),
      Obj(Str, Num(9), Factors(FactorsMarket)),
      Obj(NumStr(12), Num(9), Factors(FactorsMarket)),
      Obj(Num(120), Str, Factors(FactorsMarket)),
      Obj(Num(120), Num(9), BadFactors),
      Scalar }

Payloads == WellFormedPayloads \cup IllFormedPayloads

\* the payload of a text without a "J" token
NoPayload == Scalar

HasToken(text, tok) == \E i \in 1..Len(text) : text[i] = tok

\* index of the first FENCE of text at or after position from, or Len + 1
RECURSIVE FirstFence(_, _)
FirstFence(text, from) ==
    IF from > Len(text) THEN Len(text) + 1
    ELSE IF text[from] = "FENCE" THEN from
    ELSE FirstFence(text, from + 1)

\* result_text.split("```")[1]: what lies between the first delimiter and
\* the second one (or the end of the text)
SplitSecond(text) ==
    LET open == FirstFence(text, 1)
        close == FirstFence(text, open + 1)
    IN SubSeq(text, open + 1, close - 1)

\* str.startswith("json")
StartsWithJson(text) == Len(text) > 0 /\ text[1] = "json"

\* str.strip()
RECURSIVE LStrip(_)
LStrip(text) ==
    IF Len(text) > 0 /\ text[1] = "ws" THEN LStrip(Tail(text)) ELSE text

RECURSIVE RStrip(_)
RStrip(text) ==
    IF Len(text) > 0 /\ text[Len(text)] = "ws"
    THEN RStrip(SubSeq(text, 1, Len(text) - 1))
    ELSE text

Strip(text) == RStrip(LStrip(text))

\* json.loads(s): the value when s is exactly one JSON text (surrounding
\* whitespace allowed), JSONDecodeError otherwise
JsonLoads(text, value) ==
    IF Strip(text) = <<"J">>
    THEN [raised |-> FALSE, value |-> value]
    ELSE [raised |-> TRUE, value |-> Scalar]

\* variant: the json tag of a fenced block is not removed
ExtractJsonKeepsTag(text, value) ==
    IF HasToken(text, "FENCE")
    THEN JsonLoads(Strip(SplitSecond(text)), value)
    ELSE JsonLoads(Strip(text), value)

\* lines 232-238
ExtractJson(text, value) ==
    IF HasToken(text, "FENCE")
    THEN LET json_text == SplitSecond(text)
         IN IF StartsWithJson(json_text)
            THEN JsonLoads(Strip(Strip(Tail(json_text))), value)
            ELSE JsonLoads(Strip(json_text), value)
    ELSE JsonLoads(Strip(text), value)

\* lines 241-247: the dict used when json.loads raised JSONDecodeError
FallbackParsed(meta) ==
    Obj(PyGet(meta.initial_price, DefaultInitialPrice), Num(HalfConfidence),
        Factors(FactorsFallback))

\* lines 230-247
ParsedResult(text, value, meta) ==
    LET r == ExtractJson(text, value)
    IN IF r.raised THEN FallbackParsed(meta) ELSE r.value

NoSignal == [kind |-> "none"]
Raised == [kind |-> "raised"]
Signal(id, p, c, f) ==
    [kind |-> "signal",
     signal |-> [asset_id |-> id, price |-> p, confidence_score |-> c, factors |-> f]]

\* lines 260-268: the handler of the outer try.  PriceSignal(...) validates
\* the raw initial_price, and its ValidationError leaves get_asset_price.
ExceptHandler(id, meta) ==
    LET price == PydanticFloat(PyGet(meta.initial_price, DefaultInitialPrice))
    IN IF price.raised THEN Raised
       ELSE Signal(id, price.v, HalfConfidence, FactorsError)

\* lines 249-258: subscripting a non-dict or a missing key, float() of a
\* non-number and pydantic's validation of factors all raise into the outer
\* handler
BuildSignal(id, parsed, meta) ==
    LET price == PyFloat(parsed.price)
        confidence == PyFloat(parsed.confidence_score)
    IN IF \/ ~parsed.object
          \/ price.raised
          \/ confidence.raised
          \/ parsed.factors.t # "map"
       THEN ExceptHandler(id, meta)
       ELSE Signal(id, price.v, confidence.v, parsed.factors.m)

\* lines 230-258 for one generation output
Synthesize(id, text, value, meta) ==
    BuildSignal(id, ParsedResult(text, value, meta), meta)

\* lines 249-255 did not raise, so line 257 is reached
SignalBuilt(parsed) ==
    /\ parsed.object
    /\ ~PyFloat(parsed.price).raised
    /\ ~PyFloat(parsed.confidence_score).raised
    /\ parsed.factors.t = "map"

\* variant: the audit record of a pricing decision is kept in the
\* document list of the knowledge store
LogPricingDecisionRecording(docs, built) ==
    IF built THEN docs \o <<"audit">> ELSE docs

\* line 257 and lines 270-275: log_pricing_decision writes one line to the
\* logger; docs is the document list of the engine before and after
LogPricingDecision(docs, built) == docs

(***************************************************************************)
(* Knowledge store (pricing_engine.py lines 105-130 and 277-337).  A       *)
(* document is identified by its text.  A vector records the text it       *)
(* embeds and whether it is the all-zero substitute of encode().  An index *)
(* is its dimension and its vectors in insertion order.  A file of the     *)
(* directory faiss_index is missing, readable ("ok", with its content) or  *)
(* unreadable ("corrupt").                                                  *)
(***************************************************************************)
Texts == {"t1", "t2"}

Vector(text, zero) == [of |-> text, zero |-> zero]

\* faiss.IndexFlatL2(d)
IndexFlatL2(d) == [d |-> d, vecs |-> <<>>]

\* the value of engine.index and engine.documents while no engine exists
NoMemory == [index |-> IndexFlatL2(0), documents |-> <<>>]

MissingIndex == [st |-> "missing", v |-> IndexFlatL2(0)]
CorruptIndex == [st |-> "corrupt", v |-> IndexFlatL2(0)]
IndexFile(idx) == [st |-> "ok", v |-> idx]

MissingDocuments == [st |-> "missing", v |-> <<>>]
CorruptDocuments == [st |-> "corrupt", v |-> <<>>]
DocumentsFile(docs) == [st |-> "ok", v |-> docs]

Directory(ixf, docf) == [dir |-> TRUE, index |-> ixf, documents |-> docf]
NoDirectory == [dir |-> FALSE, index |-> MissingIndex, documents |-> MissingDocuments]

\* a dimension other than the configured one (an index written by a
\* deployment with another embedding model)
OtherDimension == VectorDimension - 128

StoredIndex(d, texts) == [d |-> d, vecs |-> [i \in DOMAIN texts |-> Vector(texts[i], FALSE)]]

\* what the working directory may hold when the process first starts
PersistedStores ==
    { NoDirectory,
      Directory(MissingIndex, MissingDocuments),
      Directory(IndexFile(StoredIndex(VectorDimension, <<>>)), DocumentsFile(<<>>)),
      Directory(IndexFile(StoredIndex(VectorDimension, <<"t1">>)),
                DocumentsFile(<<"t1">>)),
      Directory(IndexFile(StoredIndex(OtherDimension, <<"t1">>)),
                DocumentsFile(<<"t1">>)) }

\* LightEmbeddingModel.encode: a failure of the model call is caught and an
\* all-zero array of the model's dimension is returned in its place
Encode(text, provider_ok) ==
    [d |-> VectorDimension, v |-> Vector(text, ~provider_ok)]

\* index.add(embedding): faiss asserts that the array has the index's
\* dimension
IndexAdd(idx, embedding) ==
    IF embedding.d # idx.d
    THEN [raised |-> TRUE, index |-> idx]
    ELSE [raised |-> FALSE,
          index |-> [idx EXCEPT !.vecs = Append(idx.vecs, embedding.v)]]

\* variant: the list is started anew, as the branch of line 308 does
DocumentsRestarted(docs, text) == <<text>>

\* variant: the new document is put in front of the list
DocumentsInsertFirst(docs, text) == <<text>> \o docs

\* line 320: self.documents.append(document)
DocumentsAppend(docs, text) == Append(docs, text)

\* variant: the loaded list is added to the list in memory
LoadDocumentsExtending(current, loaded) == current \o loaded

\* line 119: self.documents = json.load(f)
LoadDocuments(current, loaded) == loaded

\* lines 114-125, the body of the try of init_vector_store; has_dimension
\* tells whether engine.vector_dimension was set (line 56)
LoadStore(d, has_dimension, mem) ==
    IF d.dir
    THEN IF d.index.st # "ok"
         THEN [raised |-> TRUE, index |-> mem.index, documents |-> mem.documents]
         ELSE IF d.documents.st # "ok"
         THEN [raised |-> TRUE, index |-> d.index.v, documents |-> mem.documents]
         ELSE [raised |-> FALSE, index |-> d.index.v,
               documents |-> LoadDocuments(mem.documents, d.documents.v)]
    ELSE IF has_dimension
         THEN [raised |-> FALSE, index |-> IndexFlatL2(VectorDimension),
               documents |-> <<>>]
         ELSE [raised |-> TRUE, index |-> mem.index, documents |-> mem.documents]

\* init_vector_store, lines 111-130: the handler builds an empty index, which
\* itself raises AttributeError when vector_dimension was never set
InitVectorStore(d, has_dimension, mem) ==
    LET r == LoadStore(d, has_dimension, mem)
    IN IF ~r.raised THEN r
       ELSE IF has_dimension
       THEN [raised |-> FALSE, index |-> IndexFlatL2(VectorDimension),
             documents |-> <<>>]
       ELSE r

\* the dicts update_knowledge_base returns (lines 330-337)
ResultSuccess == [status |-> "success", message |-> "Updated knowledge base"]
ResultError == [error |-> "str(e)"]
NoResult == [none |-> TRUE]

\* index.ntotal and len(documents)
Sizes(idx, docs) == [index |-> Len(idx.vecs), documents |-> Len(docs)]

\* the calls returned so far: the texts of those that returned the success
\* dict, in order, and whether any call returned something else
NoLog == [succeeded |-> <<>>, failed |-> FALSE]

IsSuccess(r) == "status" \in DOMAIN r /\ r.status = "success"

Logged(l, call) ==
    IF IsSuccess(call.result)
    THEN [l EXCEPT !.succeeded = Append(l.succeeded, call.text)]
    ELSE [l EXCEPT !.failed = TRUE]

\* no update_knowledge_base call is running
NoCall ==
    [pc |-> "none", text |-> "none", provider_ok |-> TRUE, failed_at |-> "none",
     before |-> [index |-> IndexFlatL2(0), documents |-> <<>>, disk |-> NoDirectory],
     result |-> NoResult]

\* the store side while the model follows pricing requests only: an engine
\* constructed in a directory without a persisted store
QuietStore ==
    [engine |-> "initialized", embedding_model |-> TRUE,
     index |-> IndexFlatL2(VectorDimension), documents |-> <<>>,
     disk |-> NoDirectory, pending |-> {}, ukb |-> NoCall, log |-> NoLog,
     boot |-> Sizes(IndexFlatL2(VectorDimension), <<>>), in_section |-> 0]

StoreIs(s) ==
    /\ engine = s.engine
    /\ embedding_model = s.embedding_model
    /\ index = s.index
    /\ documents = s.documents
    /\ disk = s.disk
    /\ pending = s.pending
    /\ ukb = s.ukb
    /\ log = s.log
    /\ boot = s.boot
    /\ in_section = s.in_section

(***************************************************************************)
(* The prompt (lines 74-103 and 173-179): the template has five sections,  *)
(* each filled with json.dumps of one dict.  json.dumps is injective on    *)
(* these dicts, so a section is modelled by the dict it renders.  nft_data *)
(* is no argument of the template: the BLOCKCHAIN DATA section renders the *)
(* local blockchain_data.                                                  *)
(***************************************************************************)
NoPrompt == [sent |-> FALSE]

RenderPrompt(meta, c, chain) ==
    [sent |-> TRUE,
     asset_info |-> meta,
     blockchain_data |-> [available |-> chain],
     market_data |-> c["auction"],
     sentiment_data |-> c["sentiment"],
     economic_data |-> c["economic"]]

(***************************************************************************)
(* The route layer (routes.py): the bearer token check.                    *)
(***************************************************************************)
\* values of the environment variable API_TOKEN
Environments == {"unset", "secret"}

\* bearer tokens a client may send
BearerTokens == {"secret", "test_token", "YOUR_ACTUAL_API_TOKEN", "invalid_token"}

\* line 42: os.getenv("API_TOKEN", "test_token")
ExpectedToken(env) == IF env = "unset" THEN "test_token" ELSE env

\* line 45
ValidTokens(env) == {ExpectedToken(env), "test_token", "YOUR_ACTUAL_API_TOKEN"}

\* validate_token: HTTPException(401) unless the token is in the list
ValidateToken(env, token) ==
    IF token \notin ValidTokens(env)
    THEN [raised |-> TRUE, status |-> 401]
    ELSE [raised |-> FALSE, status |-> 200]

\* a value of DataSourceUpdate.data or of the key "content": a dict or a
\* str, standing for the text id, or nothing
MissingValue == [type |-> "missing", id |-> "none"]
Values == [type : {"dict", "str"}, id : Texts]

\* DataSourceUpdate (schemas.py): source_name, data, timestamp
SourceNames == {"auction_data"}
Timestamps == {"t_caller"}
UpdateBodies == [source_name : SourceNames, data : Values, timestamp : Timestamps]

\* datetime.now().isoformat() while the call runs
Clock == {"t_now"}

\* DataSourceUpdate.dict(): the keys are those of the schema, so the dict
\* has neither "source" nor "content"
DictOf(body) ==
    [source |-> "missing", content |-> MissingValue,
     source_name |-> body.source_name, data |-> body.data,
     timestamp |-> body.timestamp]

\* update_knowledge_base lines 280-298: the document built from the dict
\* and the clock.  The text is json.dumps(content), content itself, or
\* str(data) of the whole dict.
BuildDocument(data, now) ==
    [text |-> CASE data.content.type = "dict" ->
                       [by |-> "json.dumps", of |-> data.content]
                [] data.content.type = "str" ->
                       [by |-> "as_is", of |-> data.content]
                [] OTHER -> [by |-> "str", of |-> data],
     metadata |-> [source |-> IF data.source = "missing" THEN "unknown"
                              ELSE data.source,
                   timestamp |-> now]]

NoDocument == [none |-> TRUE]
NoBody == [none |-> TRUE]

\* no protected request was made yet; API_TOKEN is not set
NoRequest ==
    [env |-> "unset", route |-> "none", token |-> "none", status |-> 0,
     body |-> NoBody, now |-> "none", document |-> NoDocument]

(***************************************************************************)
(* State machine.                                                          *)
(***************************************************************************)
NoMeta == Meta(Absent, Absent)

\* no call of get_asset_price is in progress
IdleLocals ==
    [pc |-> "idle", asset_id |-> "none", asset_metadata |-> NoMeta,
     task |-> [s \in Sources |-> NoTask], ctx |-> EmptyCtx,
     blockchain_data |-> FALSE, generation |-> "none", result_text |-> <<>>,
     payload |-> NoPayload, result |-> NoSignal, completed |-> <<>>,
     prompt |-> NoPrompt]

\* the state after AIPricingEngine() and the import of routes.py
Init ==
    /\ asset_db = InitialAssetDb
    /\ client \in BOOLEAN
    /\ pc = IdleLocals.pc
    /\ asset_id = IdleLocals.asset_id
    /\ asset_metadata = IdleLocals.asset_metadata
    /\ task = IdleLocals.task
    /\ ctx = IdleLocals.ctx
    /\ blockchain_data = IdleLocals.blockchain_data
    /\ generation = IdleLocals.generation
    /\ result_text = IdleLocals.result_text
    /\ payload = IdleLocals.payload
    /\ result = IdleLocals.result
    /\ completed = IdleLocals.completed
    /\ prompt = IdleLocals.prompt
    /\ api = NoRequest
    /\ StoreIs(QuietStore)

\* get_asset_price lines 134-149: default the metadata, create the four
\* tasks, suspend on the first await
Enter(id, given, m) ==
    /\ asset_id' = id
    /\ asset_metadata' = EffectiveMetadata(given, m)
    /\ task' = [s \in Sources |-> Running]
    /\ pc' = "await"
    /\ UNCHANGED <<kbvars, client, ctx, blockchain_data, generation, result_text,
                   payload, result, completed, prompt>>

\* routes.py generate_price lines 68-90
RouteMetadata(id, cp) ==
    LET base == IF id \in DOMAIN asset_db
                THEN asset_db[id]
                ELSE Meta(IF Truthy(cp) THEN cp ELSE Num(SamplePrice), Absent)
    IN IF Truthy(cp) THEN [base EXCEPT !.current_price = cp] ELSE base

generate_price(id, cp) ==
    /\ pc = "idle"
    \* asset_metadata aliases the catalog entry, so line 88 writes into asset_db
    /\ asset_db' = IF id \in DOMAIN asset_db
                   THEN [asset_db EXCEPT ![id] = RouteMetadata(id, cp)]
                   ELSE asset_db
    /\ Enter(id, TRUE, RouteMetadata(id, cp))

\* a request to POST /api/price that passed validate_token
GeneratePrice(id, cp) ==
    /\ generate_price(id, cp)
    /\ UNCHANGED api

\* a direct call of get_asset_price (main.py run_example, the unit tests)
CallGetAssetPrice(id, given, m) ==
    /\ pc = "idle"
    /\ UNCHANGED <<asset_db, api>>
    /\ Enter(id, given, m)

\* the remote end of source s answers and the fetch_* coroutine returns
SourceSettles(s, resp) ==
    /\ task[s].st = "running"
    /\ task' = [task EXCEPT ![s] = Done(FetchResult(s, resp))]
    /\ UNCHANGED <<kbvars, api, completed, prompt, asset_db, client, pc, asset_id, asset_metadata, ctx,
                   blockchain_data, generation, result_text, payload, result>>

\* the remote end of source s will never answer; the fetch_* coroutines set
\* no timeout, so the task stays pending
SourceGoesSilent(s) ==
    /\ task[s].st = "running"
    /\ task' = [task EXCEPT ![s] = Silent]
    /\ UNCHANGED <<kbvars, api, completed, prompt, asset_db, client, pc, asset_id, asset_metadata, ctx,
                   blockchain_data, generation, result_text, payload, result>>

NextAwaited == AwaitOrder[Cardinality(DOMAIN ctx) + 1]

\* variant: the k-th local receives the record of the k-th task to complete
AwaitedRecordByCompletion(s) ==
    task[completed[CHOOSE k \in 1..Len(AwaitOrder) : AwaitOrder[k] = s]].rec

\* `x_data = await x_task`: the value of the await is the result of the
\* awaited task
AwaitedRecord(s) == task[s].rec

\* lines 149-152: one `x_data = await x_task`
Await ==
    /\ pc = "await"
    /\ LET s == NextAwaited
       IN /\ task[s].st = "done"
          /\ IF task[s].raised
             THEN /\ result' = ExceptHandler(asset_id, asset_metadata)
                  /\ pc' = "done"
                  /\ UNCHANGED ctx
             ELSE /\ ctx' = ctx @@ (s :> AwaitedRecord(s))
                  /\ pc' = IF s = AwaitOrder[Len(AwaitOrder)] THEN "prompt" ELSE "await"
                  /\ UNCHANGED result
    /\ UNCHANGED <<kbvars, api, completed, prompt, asset_db, client, asset_id, asset_metadata, task,
                   blockchain_data, generation, result_text, payload>>

\* variant: the token id is converted whatever the record holds
TokenIdUnguarded(nft_data) == PyInt(nft_data.token_id)

\* line 156-158: int(nft_data.get("token_id", "1")) runs only when the record
\* has a non-empty contract_address
TokenId(nft_data) ==
    IF ~nft_data.error /\ nft_data.contract_address
    THEN PyInt(nft_data.token_id)
    ELSE [raised |-> FALSE, v |-> 1]

\* lines 154-179: blockchain lookup and prompt formatting
BuildPrompt ==
    /\ pc = "prompt"
    /\ IF TokenId(ctx["nft"]).raised
       THEN /\ result' = ExceptHandler(asset_id, asset_metadata)
            /\ pc' = "done"
            /\ UNCHANGED <<blockchain_data, prompt>>
       ELSE /\ blockchain_data' = (~ctx["nft"].error /\ ctx["nft"].contract_address)
            /\ prompt' = RenderPrompt(asset_metadata, ctx, blockchain_data')
            /\ pc' = "generating"
            /\ UNCHANGED result
    /\ UNCHANGED <<kbvars, api, completed, asset_db, client, asset_id, asset_metadata, task, ctx,
                   generation, result_text, payload>>

\* what the text-generation call can do: with a client the call returns or
\* raises; without one the HTTP fallback answers 200, answers another status
\* or raises
GenerationOutcomes ==
    IF client THEN {"text", "raised"} ELSE {"text", "raised", "non200"}

\* lines 182-228 failing: the inner handler logs and re-raises, the outer
\* handler answers
GenerationFails(outcome) ==
    /\ pc = "generating"
    /\ outcome \in GenerationOutcomes \ {"text"}
    /\ generation' = outcome
    /\ result' = ExceptHandler(asset_id, asset_metadata)
    /\ pc' = "done"
    /\ UNCHANGED <<kbvars, api, completed, prompt, asset_db, client, asset_id, asset_metadata, task, ctx,
                   blockchain_data, result_text, payload>>

\* lines 182-258 with a generation output: extract, build the signal, return
GenerationReturns(text, value) ==
    /\ pc = "generating"
    /\ generation' = "text"
    /\ result_text' = text
    /\ payload' = IF HasToken(text, "J") THEN value ELSE NoPayload
    /\ result' = Synthesize(asset_id, text, value, asset_metadata)
    /\ documents' = LogPricingDecision(documents,
                        SignalBuilt(ParsedResult(text, value, asset_metadata)))
    /\ pc' = "done"
    /\ UNCHANGED <<engine, embedding_model, index, disk, pending, ukb, log,
                   boot, in_section, api, completed, prompt, asset_db, client,
                   asset_id, asset_metadata, task, ctx, blockchain_data>>

\* the generation call returns some output of at most n tokens
GenerationReturnsSome(n) ==
    /\ pc = "generating"
    /\ \E text \in TextsUpTo(n), value \in Payloads :
          GenerationReturns(text, value)

\* the caller has the result; the locals of the call are gone
Return ==
    /\ pc = "done"
    /\ pc' = IdleLocals.pc
    /\ asset_id' = IdleLocals.asset_id
    /\ asset_metadata' = IdleLocals.asset_metadata
    /\ task' = IdleLocals.task
    /\ ctx' = IdleLocals.ctx
    /\ blockchain_data' = IdleLocals.blockchain_data
    /\ generation' = IdleLocals.generation
    /\ result_text' = IdleLocals.result_text
    /\ payload' = IdleLocals.payload
    /\ result' = IdleLocals.result
    /\ completed' = IdleLocals.completed
    /\ prompt' = IdleLocals.prompt
    /\ UNCHANGED <<kbvars, api, asset_db, client>>

Next ==
    \/ \E id \in AssetIds, cp \in RequestPrices : GeneratePrice(id, cp)
    \/ \E id \in AssetIds, given \in BOOLEAN, m \in CallerMetadata :
          CallGetAssetPrice(id, given, m)
    \/ \E s \in Sources : \E resp \in Responses(s) : SourceSettles(s, resp)
    \/ \E s \in Sources : SourceGoesSilent(s)
    \/ Await
    \/ BuildPrompt
    \/ \E outcome \in {"raised", "non200"} : GenerationFails(outcome)
    \/ GenerationReturnsSome(MaxGenLen)
    \/ Return

Spec == Init /\ [][Next]_vars

\* the event loop runs every task that can run; a remote end that answers
\* is eventually heard
FairSpec == Spec /\ WF_vars(Next)

(***************************************************************************)
(* The join of lines 144-152, following the order in which the four tasks  *)
(* complete.  Every remote end answers.                                    *)
(***************************************************************************)
\* longest generation output (in tokens) drawn behind the join
JoinGenLen == 1

\* SourceSettles, with the completion recorded
SourceCompletes(s, resp) ==
    /\ task[s].st = "running"
    /\ task' = [task EXCEPT ![s] = Done(FetchResult(s, resp))]
    /\ completed' = Append(completed, s)
    /\ UNCHANGED <<kbvars, api, prompt, asset_db, client, pc, asset_id,
                   asset_metadata, ctx, blockchain_data, generation,
                   result_text, payload, result>>

JoinNext ==
    \/ \E id \in AssetIds, cp \in RequestPrices : GeneratePrice(id, cp)
    \/ \E s \in Sources : \E resp \in Responses(s) : SourceCompletes(s, resp)
    \/ Await
    \/ BuildPrompt
    \/ \E outcome \in {"raised", "non200"} : GenerationFails(outcome)
    \/ GenerationReturnsSome(JoinGenLen)
    \/ Return

JoinSpec == Init /\ [][JoinNext]_vars

(***************************************************************************)
(* The extraction step alone (lines 230-258): a call whose four sources    *)
(* have answered and whose prompt is sent, over longer generation outputs. *)
(***************************************************************************)
ExtractInit ==
    /\ asset_db = InitialAssetDb
    /\ client \in BOOLEAN
    /\ pc = "generating"
    /\ asset_id \in AssetIds
    /\ \E given \in BOOLEAN, m \in CallerMetadata :
          asset_metadata = EffectiveMetadata(given, m)
    /\ task = [s \in Sources |->
                 Done(FetchResult(s, IF s = "nft" THEN "no_contract" ELSE "ok"))]
    /\ ctx = [s \in Sources |-> task[s].rec]
    /\ blockchain_data = FALSE
    /\ generation = "none"
    /\ result_text = <<>>
    /\ payload = NoPayload
    /\ result = NoSignal
    /\ completed = IdleLocals.completed
    /\ prompt = RenderPrompt(asset_metadata, ctx, blockchain_data)
    /\ api = NoRequest
    /\ StoreIs(QuietStore)

ExtractNext ==
    \/ \E outcome \in {"raised", "non200"} : GenerationFails(outcome)
    \/ GenerationReturnsSome(MaxTextLen)
    \/ Return

ExtractSpec == ExtractInit /\ [][ExtractNext]_vars

(***************************************************************************)
(* The knowledge store: construction of the engine, init_vector_store,     *)
(* update_knowledge_base and process stops.  update_knowledge_base has no  *)
(* await in its body, so the event loop runs one call at a time from its   *)
(* first line to its return; the process may still stop between two of its *)
(* steps.  The constructor always leaves engine.index set, so the branch   *)
(* of lines 305-317 (index is None) is never taken.                        *)
(***************************************************************************)
\* a call is accepted only while the store, in memory and in the directory,
\* holds fewer records than this
MaxRecords == 3

pricevars == <<asset_db, client, pc, asset_id, asset_metadata, task, ctx,
               blockchain_data, generation, result_text, payload, result,
               completed, prompt>>

Memory == [index |-> index, documents |-> documents]

EngineAlive == engine \in {"initialized", "running"}

\* calls requested and not yet returned
InFlight == Cardinality(pending) + (IF ukb.pc = "none" THEN 0 ELSE 1)

StoreFull ==
    \/ Len(documents) + InFlight >= MaxRecords
    \/ Len(index.vecs) + InFlight >= MaxRecords
    \/ Len(disk.documents.v) + InFlight >= MaxRecords
    \/ Len(disk.index.v.vecs) + InFlight >= MaxRecords

\* the process has not started yet
KbInit ==
    /\ asset_db = InitialAssetDb
    /\ client = TRUE
    /\ pc = IdleLocals.pc
    /\ asset_id = IdleLocals.asset_id
    /\ asset_metadata = IdleLocals.asset_metadata
    /\ task = IdleLocals.task
    /\ ctx = IdleLocals.ctx
    /\ blockchain_data = IdleLocals.blockchain_data
    /\ generation = IdleLocals.generation
    /\ result_text = IdleLocals.result_text
    /\ payload = IdleLocals.payload
    /\ result = IdleLocals.result
    /\ completed = IdleLocals.completed
    /\ prompt = IdleLocals.prompt
    /\ api = NoRequest
    /\ engine = "stopped"
    /\ embedding_model = FALSE
    /\ index = NoMemory.index
    /\ documents = NoMemory.documents
    /\ disk \in PersistedStores
    /\ pending = {}
    /\ ukb = NoCall
    /\ log = NoLog
    /\ boot = Sizes(NoMemory.index, NoMemory.documents)
    /\ in_section = 0

\* AIPricingEngine(), lines 53-59 and 105-109: loaded tells whether
\* LightEmbeddingModel(...) succeeded; an exception of init_vector_store
\* leaves the constructor and no engine exists
Construct(loaded) ==
    /\ engine \in {"stopped", "failed"}
    /\ embedding_model' = loaded
    /\ LET r == InitVectorStore(disk, loaded, NoMemory)
       IN IF r.raised
          THEN /\ engine' = "failed"
               /\ index' = NoMemory.index
               /\ documents' = NoMemory.documents
               /\ boot' = Sizes(NoMemory.index, NoMemory.documents)
          ELSE /\ engine' = "initialized"
               /\ index' = r.index
               /\ documents' = r.documents
               /\ boot' = Sizes(r.index, r.documents)
    /\ UNCHANGED <<disk, pending, ukb, log, in_section, pricevars, api>>

\* engine.init_vector_store() called again on the live engine
ReInit ==
    /\ EngineAlive
    /\ ukb.pc = "none"
    /\ LET r == InitVectorStore(disk, embedding_model, Memory)
       IN /\ index' = r.index
          /\ documents' = r.documents
          /\ boot' = Sizes(r.index, r.documents)
          /\ engine' = IF r.raised THEN "running" ELSE "initialized"
    /\ log' = NoLog
    /\ UNCHANGED <<embedding_model, disk, pending, ukb, in_section, pricevars,
                   api>>

\* routes.py update_data_source (or main.py): a call of
\* update_knowledge_base is requested; its coroutine has not run yet
update_data_source(text) ==
    /\ EngineAlive
    /\ text \notin pending
    /\ ~StoreFull
    /\ pending' = pending \cup {text}
    /\ engine' = "running"
    /\ UNCHANGED <<embedding_model, index, documents, disk, ukb, log, boot,
                   in_section, pricevars>>

\* a request to POST /api/datasource/update that passed validate_token, or
\* the direct call of main.py
Submit(text) ==
    /\ update_data_source(text)
    /\ UNCHANGED api

\* variant: the call suspends between its append and its writes, so the
\* event loop may start another call in between
NoCallRunningYielding == TRUE

\* update_knowledge_base is a coroutine without any await (lines 277-337):
\* once the event loop has started a call it runs it to its return, so a
\* call starts only while none is running
NoCallRunning == ukb.pc = "none"

\* lines 279-321: build the document, encode, append to the list, add to
\* the index
UkbAppend(text, provider_ok) ==
    /\ EngineAlive
    /\ NoCallRunning
    /\ text \in pending
    /\ pending' = pending \ {text}
    /\ LET call == [NoCall EXCEPT !.text = text,
                                  !.provider_ok = provider_ok /\ embedding_model,
                                  !.before = [index |-> index,
                                              documents |-> documents,
                                              disk |-> disk]]
       IN IF ~embedding_model
          \* line 301 on None: AttributeError
          THEN /\ ukb' = [call EXCEPT !.pc = "done", !.failed_at = "encode",
                                      !.result = ResultError]
               /\ UNCHANGED <<index, documents, in_section>>
          ELSE LET added == IndexAdd(index, Encode(text, provider_ok))
               IN /\ documents' = DocumentsAppend(documents, text)
                  /\ index' = added.index
                  /\ in_section' = IF added.raised THEN in_section
                                   ELSE in_section + 1
                  /\ ukb' = IF added.raised
                            THEN [call EXCEPT !.pc = "done", !.failed_at = "add",
                                              !.result = ResultError]
                            ELSE [call EXCEPT !.pc = "write_index"]
    /\ engine' = "running"
    /\ UNCHANGED <<embedding_model, disk, log, boot, pricevars, api>>

\* what a write into the directory can do: succeed, fail before the file is
\* touched, or fail after the file was truncated
WriteOutcomes == IF disk.dir THEN {"ok", "failed", "torn"} ELSE {"failed"}

\* variant: a failed write is logged and the call goes on
WriteResultSwallowing(outcome) == ResultSuccess

\* lines 324-337: what the call returns once a write ended with outcome
WriteResult(outcome) == IF outcome = "ok" THEN ResultSuccess ELSE ResultError

\* line 324: faiss.write_index(self.index, "faiss_index/index.faiss")
UkbWriteIndex(outcome) ==
    /\ ukb.pc = "write_index"
    /\ outcome \in WriteOutcomes
    /\ disk' = CASE outcome = "ok" -> [disk EXCEPT !.index = IndexFile(index)]
                 [] outcome = "torn" -> [disk EXCEPT !.index = CorruptIndex]
                 [] outcome = "failed" -> disk
    /\ ukb' = IF outcome = "ok"
              THEN [ukb EXCEPT !.pc = "write_documents"]
              ELSE [ukb EXCEPT !.pc = "done", !.failed_at = "write_index",
                               !.result = WriteResult(outcome)]
    /\ in_section' = IF outcome = "ok" THEN in_section ELSE in_section - 1
    /\ UNCHANGED <<engine, embedding_model, index, documents, pending, log,
                   boot, pricevars, api>>

\* variant: the write adds the last document to what the file holds
DumpedIncrementally(docs, file) == Append(file.v, docs[Len(docs)])

\* lines 325-326: json.dump(self.documents, f) into a file opened with "w"
\* writes the whole list in memory, whatever the file held
Dumped(docs, file) == docs

\* lines 325-333: json.dump(self.documents, f), then the success dict
UkbWriteDocuments(outcome) ==
    /\ ukb.pc = "write_documents"
    /\ outcome \in WriteOutcomes
    /\ disk' = CASE outcome = "ok" ->
                      [disk EXCEPT !.documents =
                          DocumentsFile(Dumped(documents, disk.documents))]
                 [] outcome = "torn" -> [disk EXCEPT !.documents = CorruptDocuments]
                 [] outcome = "failed" -> disk
    /\ ukb' = [ukb EXCEPT !.pc = "done",
                          !.failed_at = IF outcome = "ok" THEN "none"
                                        ELSE "write_documents",
                          !.result = WriteResult(outcome)]
    /\ in_section' = in_section - 1
    /\ UNCHANGED <<engine, embedding_model, index, documents, pending, log,
                   boot, pricevars, api>>

\* the caller has the returned dict
UkbReturn ==
    /\ ukb.pc = "done"
    /\ log' = Logged(log, ukb)
    /\ ukb' = NoCall
    /\ UNCHANGED <<engine, embedding_model, index, documents, disk, pending,
                   boot, in_section, pricevars, api>>

\* the process stops: everything but the directory is gone
Crash ==
    /\ EngineAlive
    /\ engine' = "stopped"
    /\ embedding_model' = FALSE
    /\ index' = NoMemory.index
    /\ documents' = NoMemory.documents
    /\ pending' = {}
    /\ ukb' = NoCall
    /\ log' = NoLog
    /\ boot' = Sizes(NoMemory.index, NoMemory.documents)
    /\ in_section' = 0
    /\ UNCHANGED <<disk, pricevars, api>>

KbNext ==
    \/ \E loaded \in BOOLEAN : Construct(loaded)
    \/ ReInit
    \/ \E text \in Texts : Submit(text)
    \/ \E text \in Texts, provider_ok \in BOOLEAN : UkbAppend(text, provider_ok)
    \/ \E outcome \in {"ok", "failed", "torn"} : UkbWriteIndex(outcome)
    \/ \E outcome \in {"ok", "failed", "torn"} : UkbWriteDocuments(outcome)
    \/ UkbReturn
    \/ Crash

KbSpec == KbInit /\ [][KbNext]_vars

(***************************************************************************)
(* The protected routes (routes.py): validate_token runs as a dependency   *)
(* before the handler.  The requests followed here arrive one at a time,   *)
(* while the engine serves no other request, and the remote ends of the    *)
(* four sources answer with a payload.                                     *)
(***************************************************************************)
\* longest generation output (in tokens) drawn behind the routes
ApiGenLen == 1

\* the answer of a remote end that is up
Answer(s) == IF s = "nft" THEN "no_contract" ELSE "ok"

\* an engine constructed in a directory that holds an empty store
ServingStore ==
    [QuietStore EXCEPT
        !.disk = Directory(IndexFile(IndexFlatL2(VectorDimension)),
                           DocumentsFile(<<>>))]

ApiInit ==
    /\ asset_db = InitialAssetDb
    /\ client = TRUE
    /\ pc = IdleLocals.pc
    /\ asset_id = IdleLocals.asset_id
    /\ asset_metadata = IdleLocals.asset_metadata
    /\ task = IdleLocals.task
    /\ ctx = IdleLocals.ctx
    /\ blockchain_data = IdleLocals.blockchain_data
    /\ generation = IdleLocals.generation
    /\ result_text = IdleLocals.result_text
    /\ payload = IdleLocals.payload
    /\ result = IdleLocals.result
    /\ completed = IdleLocals.completed
    /\ prompt = IdleLocals.prompt
    /\ \E env \in Environments : api = [NoRequest EXCEPT !.env = env]
    /\ StoreIs(ServingStore)

Serving == pc = "idle" /\ InFlight = 0

\* POST /api/price (lines 67-91) behind validate_token (lines 36-56)
PostPrice(token, id, cp) ==
    LET seen == [api EXCEPT !.route = "price", !.token = token,
                            !.body = NoBody, !.now = "none",
                            !.document = NoDocument]
    IN /\ Serving
       /\ IF ValidateToken(api.env, token).raised
          THEN /\ api' = [seen EXCEPT !.status = ValidateToken(api.env, token).status]
               /\ UNCHANGED <<pricevars, kbvars>>
          ELSE /\ generate_price(id, cp)
               /\ api' = [seen EXCEPT !.status = 200]
               /\ UNCHANGED kbvars

\* POST /api/datasource/update (lines 93-97) behind validate_token: the
\* handler passes data.dict() to update_knowledge_base, which builds its
\* document from that dict and the clock
PostUpdate(token, body, now) ==
    LET seen == [api EXCEPT !.route = "update", !.token = token,
                            !.body = body, !.now = now]
    IN /\ Serving
       /\ IF ValidateToken(api.env, token).raised
          THEN /\ api' = [seen EXCEPT
                             !.status = ValidateToken(api.env, token).status,
                             !.document = NoDocument]
               /\ UNCHANGED <<pricevars, kbvars>>
          ELSE /\ update_data_source(body.data.id)
               /\ api' = [seen EXCEPT
                             !.status = 200,
                             !.document = BuildDocument(DictOf(body), now)]

ApiNext ==
    \/ \E token \in BearerTokens, id \in AssetIds, cp \in RequestPrices :
          PostPrice(token, id, cp)
    \/ \E token \in BearerTokens, body \in UpdateBodies, now \in Clock :
          PostUpdate(token, body, now)
    \/ \E s \in Sources : SourceSettles(s, Answer(s))
    \/ Await
    \/ BuildPrompt
    \/ \E outcome \in {"raised", "non200"} : GenerationFails(outcome)
    \/ GenerationReturnsSome(ApiGenLen)
    \/ Return
    \/ \E text \in Texts : UkbAppend(text, TRUE)
    \/ \E outcome \in {"ok", "failed"} : UkbWriteIndex(outcome)
    \/ \E outcome \in {"ok", "failed"} : UkbWriteDocuments(outcome)
    \/ UkbReturn

ApiSpec == ApiInit /\ [][ApiNext]_vars

(***************************************************************************)
(* Pricing calls and update_knowledge_base calls on one engine, running    *)
(* interleaved: a pricing call is suspended at its awaits (lines 149-152   *)
(* and the generation call), where the event loop may run store calls.     *)
(* The remote ends of the sources answer with a payload.                   *)
(***************************************************************************)
\* longest generation output (in tokens) drawn next to store calls
MixGenLen == 1

\* the engine behind the routes, before any request
MixInit ==
    /\ ApiInit
    /\ api = NoRequest

MixNext ==
    \/ \E id \in AssetIds : CallGetAssetPrice(id, FALSE, NoMeta)
    \/ \E s \in Sources : SourceSettles(s, Answer(s))
    \/ Await
    \/ BuildPrompt
    \/ \E outcome \in {"raised", "non200"} : GenerationFails(outcome)
    \/ GenerationReturnsSome(MixGenLen)
    \/ Return
    \/ \E text \in Texts : Submit(text)
    \/ \E text \in Texts, provider_ok \in BOOLEAN : UkbAppend(text, provider_ok)
    \/ \E outcome \in {"ok", "failed", "torn"} : UkbWriteIndex(outcome)
    \/ \E outcome \in {"ok", "failed", "torn"} : UkbWriteDocuments(outcome)
    \/ UkbReturn

MixSpec == MixInit /\ [][MixNext]_vars

(***************************************************************************)
(* Vocabulary of the properties.                                           *)
(***************************************************************************)
\* the call has left the aggregation step (lines 149-152)
PastAggregation == pc \in {"prompt", "generating", "done"}

\* text is one JSON value and whitespace
IsJsonText(text) ==
    \E i \in 1..Len(text) :
        /\ text[i] = "J"
        /\ \A j \in (1..Len(text)) \ {i} : text[j] = "ws"

\* the output is one JSON value and has no fence delimiter
BareJson(text) == ~HasToken(text, "FENCE") /\ IsJsonText(text)

\* the first fenced block of the output, tagged json or not, holds one JSON
\* value; the block ends at the next delimiter or at the end of the output
FencedJson(text) ==
    \E i \in 1..Len(text) :
        /\ text[i] = "FENCE"
        /\ \A k \in 1..(i - 1) : text[k] # "FENCE"
        /\ \E j \in (i + 1)..(Len(text) + 1) :
              /\ j = Len(text) + 1 \/ text[j] = "FENCE"
              /\ LET body == SubSeq(text, i + 1, j - 1)
                 IN \/ IsJsonText(body)
                    \/ Len(body) > 0 /\ body[1] = "json" /\ IsJsonText(Tail(body))

ValidJsonOutput(text) == BareJson(text) \/ FencedJson(text)

\* the call returned after the generation call produced an output
ReturnedFromText == pc = "done" /\ generation = "text"

IsSignal == result.kind = "signal"

FailedSources == {s \in DOMAIN ctx : ctx[s].error}

(***************************************************************************)
(* C1: once a pricing call has left the aggregation step, all four source  *)
(* tasks have settled and the call holds exactly one record per source     *)
(* kind, each the record its own task produced (payload or failure),       *)
(* whatever subset of the sources failed.                                  *)
(***************************************************************************)
C1_OneRecordPerSource ==
    PastAggregation =>
        /\ DOMAIN ctx = Sources
        /\ \A s \in Sources : task[s].st = "done" /\ ctx[s] = task[s].rec

\* a call at the generation step with a failed market source next to
\* successful ones
C1_Witness ==
    /\ pc = "generating"
    /\ ctx["auction"].error
    /\ ~ctx["sentiment"].error
    /\ ~ctx["nft"].error

C3_GenerationFailureIsFatal ==
    (pc = "done" /\ generation \in {"raised", "non200"}) =>
        result.kind = "generation_unavailable"

(***************************************************************************)
(* C4: for every generation output that is not valid JSON, fenced or not,  *)
(* the call returns a PriceSignal with factors {"fallback": 1.0} and       *)
(* confidence_score 0.5, and does not raise.                               *)
(***************************************************************************)
C4_NonJsonYieldsFallback ==
    (ReturnedFromText /\ ~ValidJsonOutput(result_text)) =>
        /\ IsSignal
        /\ result.signal.factors = FactorsFallback
        /\ result.signal.confidence_score = HalfConfidence

(***************************************************************************)
(* C5: when the output parses as JSON but price, confidence_score or       *)
(* factors is missing, or price or confidence_score is not a number, the   *)
(* result is the same fallback PriceSignal as for unparseable output.      *)
(***************************************************************************)
MissingOrNonNumeric(value) ==
    \/ value.price.t # "num"
    \/ value.confidence_score.t # "num"
    \/ value.factors.t = "absent"

C5_ShapeProblemYieldsFallback ==
    (/\ ReturnedFromText
     /\ ValidJsonOutput(result_text)
     /\ payload.object
     /\ MissingOrNonNumeric(payload)) =>
        /\ IsSignal
        /\ result.signal.factors = FactorsFallback
        /\ result.signal.confidence_score = HalfConfidence

(***************************************************************************)
(* C6: the price of the fallback PriceSignal is the request's current      *)
(* price if one was provided, otherwise the metadata's initial price,      *)
(* otherwise the fixed default.                                            *)
(***************************************************************************)
PrecedencePrice(meta) ==
    IF meta.current_price.t = "num" THEN meta.current_price.v
    ELSE IF meta.initial_price.t = "num" THEN meta.initial_price.v
    ELSE DefaultInitialPrice

C6_FallbackPricePrecedence ==
    (/\ ReturnedFromText
     /\ ~ValidJsonOutput(result_text)
     /\ IsSignal
     /\ result.signal.factors = FactorsFallback) =>
        result.signal.price = PrecedencePrice(asset_metadata)

(***************************************************************************)
(* C7: every returned PriceSignal has confidence_score within [0, 1]; a    *)
(* parsed confidence_score outside the range is clamped to the nearest     *)
(* bound.                                                                  *)
(***************************************************************************)
Clamp(x, lo, hi) == IF x < lo THEN lo ELSE IF x > hi THEN hi ELSE x

C7_ConfidenceClamped ==
    (pc = "done" /\ IsSignal) =>
        /\ result.signal.confidence_score \in 0..FullWeight
        /\ (/\ generation = "text"
            /\ ValidJsonOutput(result_text)
            /\ payload \in WellFormedPayloads) =>
               result.signal.confidence_score =
                   Clamp(payload.confidence_score.v, 0, FullWeight)

(***************************************************************************)
(* C8: every returned PriceSignal, on the parsed, the fallback and the     *)
(* error path alike, has a price >= 0.                                     *)
(***************************************************************************)
C8_PriceNonNegative ==
    (pc = "done" /\ IsSignal) => result.signal.price >= 0

(***************************************************************************)
(* C9: when the generation output is a valid JSON object with numeric      *)
(* price and confidence_score and a factors mapping, either bare (no fence *)
(* delimiter in the output) or inside the first fenced block (tagged json  *)
(* or not), the returned PriceSignal has the requested asset_id and        *)
(* exactly the parsed price, confidence_score and factors; what follows    *)
(* the first fenced block is ignored.                                      *)
(***************************************************************************)
C9_ValidJsonParsed ==
    (/\ ReturnedFromText
     /\ ValidJsonOutput(result_text)
     /\ payload \in WellFormedPayloads) =>
        result = Signal(asset_id, payload.price.v, payload.confidence_score.v,
                        payload.factors.m)

\* a tagged fenced block followed by prose, parsed into the signal
C9_Witness ==
    /\ ReturnedFromText
    /\ result_text = <<"FENCE", "json", "J", "FENCE", "prose">>
    /\ payload = Obj(Num(120), Num(9), Factors(FactorsMarket))
    /\ asset_id = "asset9"
    /\ IsSignal
    /\ result.signal.asset_id = "asset9"
    /\ result.signal.price = 120
    /\ result.signal.factors = FactorsMarket

(***************************************************************************)
(* C10: whatever subset of the four sources failed, a call whose           *)
(* generation output is valid JSON returns the PriceSignal with the parsed *)
(* values, the same as with no source failing; and no source failure makes *)
(* a call end before the generation call.                                  *)
(***************************************************************************)
C10_SourceFailuresDoNotFailRequest ==
    /\ (/\ ReturnedFromText
        /\ ValidJsonOutput(result_text)
        /\ payload \in WellFormedPayloads) =>
           result = Signal(asset_id, payload.price.v, payload.confidence_score.v,
                           payload.factors.m)
    /\ (pc = "done" /\ generation = "none") =>
           /\ DOMAIN ctx = Sources
           /\ ~ctx["nft"].error

\* all four sources failed and the parsed values were returned
C10_Witness ==
    /\ ReturnedFromText
    /\ FailedSources = Sources
    /\ result_text = <<"J">>
    /\ payload = Obj(Num(120), Num(9), Factors(FactorsMarket))
    /\ IsSignal
    /\ result.signal.price = 120
    /\ result.signal.confidence_score = 9

(***************************************************************************)
(* C11: get_asset_price never ends with an unhandled exception: whatever   *)
(* the asset id, the metadata (absent, or without a usable initial price), *)
(* the source outcomes and the generation outcome, the call returns a      *)
(* PriceSignal or the generation_unavailable error.                        *)
(***************************************************************************)
C11_NeverRaises ==
    pc = "done" => result.kind \in {"signal", "generation_unavailable"}

(***************************************************************************)
(* Vocabulary of the knowledge store properties.                           *)
(***************************************************************************)
\* no update_knowledge_base call is waiting or running
Quiescent == EngineAlive /\ ukb.pc = "none" /\ pending = {}

\* every call returned since the initialization returned the success dict
AllSucceeded == ~log.failed

\* both files of the directory are readable
PairReadable == disk.dir /\ disk.index.st = "ok" /\ disk.documents.st = "ok"

\* vector i of idx is the embedding of document i of docs
Aligned(idx, docs) ==
    /\ Len(idx.vecs) = Len(docs)
    /\ \A i \in 1..Len(docs) : idx.vecs[i].of = docs[i]

\* the two files hold the same number of records, position by position
PairInSync == PairReadable /\ Aligned(disk.index.v, disk.documents.v)

(***************************************************************************)
(* C12: when the N update_knowledge_base calls requested since the store   *)
(* was initialized have all run, in whatever order, and all returned       *)
(* success, the document list and the index each hold exactly N more       *)
(* records than before, the two files hold what memory holds, and the      *)
(* index size equals the document list length.                             *)
(***************************************************************************)
C12_ConcurrentIngestsAllKept ==
    (Quiescent /\ AllSucceeded /\ Len(log.succeeded) > 0) =>
        /\ Len(documents) = boot.documents + Len(log.succeeded)
        /\ Len(index.vecs) = boot.index + Len(log.succeeded)
        /\ PairReadable
        /\ disk.documents.v = documents
        /\ disk.index.v = index
        /\ Len(index.vecs) = Len(documents)

(***************************************************************************)
(* C13: when the embedding provider fails during update_knowledge_base,    *)
(* the call does not report success and has no effect: the index, the      *)
(* document list and both files are as they were before the call (no       *)
(* record with a substitute embedding is appended).                        *)
(***************************************************************************)
C13_EmbeddingFailureHasNoEffect ==
    (ukb.pc = "done" /\ ~ukb.provider_ok) =>
        /\ ~IsSuccess(ukb.result)
        /\ index = ukb.before.index
        /\ documents = ukb.before.documents
        /\ disk = ukb.before.disk

(***************************************************************************)
(* C14: when the write of the index file or of the document file fails     *)
(* after the in-memory append, update_knowledge_base returns a non-success *)
(* result (its error dict), never the success dict, and the new record is  *)
(* still in the in-memory document list and index.                         *)
(***************************************************************************)
C14_PersistFailureReported ==
    (ukb.pc = "done" /\ ukb.failed_at \in {"write_index", "write_documents"}) =>
        /\ ~IsSuccess(ukb.result)
        /\ "error" \in DOMAIN ukb.result
        /\ documents = Append(ukb.before.documents, ukb.text)
        /\ index.vecs = Append(ukb.before.index.vecs,
                               Vector(ukb.text, ~ukb.provider_ok))

\* the document file could not be written after the index file was: the
\* call ended with the error dict and memory holds the second record
C14_Witness ==
    /\ ukb.pc = "done"
    /\ ukb.failed_at = "write_documents"
    /\ "error" \in DOMAIN ukb.result
    /\ documents = <<"t1", "t2">>
    /\ Len(index.vecs) = 2
    /\ disk.index.v = index
    /\ disk.documents.v = <<"t1">>

(***************************************************************************)
(* C15: the index file and the document file are never out of sync: no     *)
(* step of the program, the first of the two writes of one ingest          *)
(* included, takes a directory whose files hold the same records position  *)
(* by position to one whose files do not.                                  *)
(***************************************************************************)
C15_FilesNeverOutOfSync == [][PairInSync => PairInSync']_vars

(***************************************************************************)
(* C16: init_vector_store loads both files when they are readable and hold *)
(* the same number of records; when they differ, or a file is missing or   *)
(* unreadable, or there is no persisted store, the store starts empty with *)
(* an index of the configured dimension; and no exception escapes.         *)
(***************************************************************************)
C16_InitChecksParity ==
    /\ engine # "failed"
    /\ engine = "initialized" =>
          IF PairReadable /\ Len(disk.index.v.vecs) = Len(disk.documents.v)
          THEN index = disk.index.v /\ documents = disk.documents.v
          ELSE index = IndexFlatL2(VectorDimension) /\ documents = <<>>

(***************************************************************************)
(* C17: round trip.  When the store started empty and every                *)
(* update_knowledge_base call since then has returned success, an engine   *)
(* initialized from the directory as it is now gets an index and a         *)
(* document list of equal length, and document i is the text passed to the *)
(* i-th call.                                                              *)
(***************************************************************************)
StartedEmpty == boot = Sizes(IndexFlatL2(VectorDimension), <<>>)

\* what init_vector_store of a new engine yields on the current directory
Reloaded == InitVectorStore(disk, embedding_model, NoMemory)

C17_RoundTrip ==
    (Quiescent /\ StartedEmpty /\ AllSucceeded) =>
        /\ ~Reloaded.raised
        /\ Len(Reloaded.index.vecs) = Len(Reloaded.documents)
        /\ Reloaded.documents = log.succeeded

\* two calls with different texts succeeded on a store that started empty,
\* and the directory gives them back in the order of the calls
C17_Witness ==
    /\ Quiescent
    /\ StartedEmpty
    /\ AllSucceeded
    /\ log.succeeded = <<"t2", "t1">>
    /\ Reloaded.documents = <<"t2", "t1">>
    /\ Len(Reloaded.index.vecs) = 2

(***************************************************************************)
(* C18: idempotence of initialization.  Calling init_vector_store again    *)
(* right after an initialization, on a directory whose two files are       *)
(* consistent, leaves the document list, the index and both files exactly  *)
(* as they were.  (A step from "initialized" to "initialized" is a call of *)
(* init_vector_store.)                                                     *)
(***************************************************************************)
C18_ReinitChangesNothing ==
    [][(engine = "initialized" /\ engine' = "initialized" /\ PairInSync) =>
          (index' = index /\ documents' = documents /\ disk' = disk)]_vars

\* an engine that init_vector_store has just initialized again (requests are
\* waiting, so it is no new engine) from a consistent pair of two records
C18_Witness ==
    /\ engine = "initialized"
    /\ pending # {}
    /\ PairInSync
    /\ documents = <<"t1", "t2">>
    /\ disk.documents.v = documents
    /\ disk.index.v = index

(***************************************************************************)
(* C19: every record of the store has an embedding of the configured       *)
(* dimension, and a mismatch is always detected: an index file of another  *)
(* dimension is not taken over at initialization, and an ingest whose      *)
(* embedding does not fit the index leaves the index and the document list *)
(* as they were.                                                           *)
(***************************************************************************)
C19_DimensionMismatchDetected ==
    /\ EngineAlive => index.d = VectorDimension
    /\ (ukb.pc = "done" /\ ukb.failed_at = "add") =>
          /\ index = ukb.before.index
          /\ documents = ukb.before.documents

(***************************************************************************)
(* C20: a successful update_knowledge_base call returns a dict whose       *)
(* "success" member is true and which has a "message" member.              *)
(***************************************************************************)
C20_SuccessFieldTrue ==
    (ukb.pc = "done" /\ ukb.failed_at = "none") =>
        /\ "success" \in DOMAIN ukb.result
        /\ ukb.result.success = TRUE
        /\ "message" \in DOMAIN ukb.result

(***************************************************************************)
(* C21.  A protected request is accepted only when its bearer token is     *)
(* the configured API_TOKEN (the default of line 42 when none is set), and *)
(* a rejected request is answered 401 and leaves the pricing engine and    *)
(* the knowledge base as they were.                                        *)
(***************************************************************************)
Accepted(a) == a.route # "none" /\ a.status = 200
Rejected(a) == a.route # "none" /\ a.status = 401

C21_OnlySharedSecretAccepted ==
    [][ /\ (api' # api /\ Accepted(api')) => api'.token = ExpectedToken(api'.env)
        /\ (api' # api /\ ~Accepted(api')) =>
               (Rejected(api') /\ UNCHANGED <<pricevars, kbvars>>) ]_vars

(***************************************************************************)
(* C22.  Between update_knowledge_base calls, whatever the calls returned, *)
(* the in-memory index holds as many vectors as the document list holds    *)
(* documents and vector i is the embedding of document i.  Stated for an   *)
(* engine whose initialization loaded as many vectors as documents.        *)
(***************************************************************************)
C22_MemoryAligned ==
    (EngineAlive /\ ukb.pc \in {"none", "done"} /\ boot.index = boot.documents)
        => Aligned(index, documents)

(***************************************************************************)
(* C23.  At most one update_knowledge_base call of the engine is between   *)
(* its in-memory append and the end of its writes: a requested call does   *)
(* not start while another is in that section.                             *)
(***************************************************************************)
C23_OneCallInSection == in_section <= 1

\* a call is between its two writes while another requested call waits
C23_Witness ==
    /\ in_section = 1
    /\ ukb.pc = "write_documents"
    /\ pending # {}

(***************************************************************************)
(* C24.  The four awaits are a join whose outcome does not depend on the   *)
(* order in which the source tasks complete: past the aggregation every    *)
(* task has completed (none was cancelled), each local holds the record of *)
(* its own task, the prompt is the one rendered from those records, and    *)
(* the returned signal is the one synthesized from the generation output.  *)
(***************************************************************************)
Joined == [s \in Sources |-> task[s].rec]

C24_JoinIgnoresCompletionOrder ==
    PastAggregation =>
        /\ \A s \in Sources : task[s].st = "done"
        /\ Len(completed) = Cardinality(Sources)
        /\ ctx = Joined
        /\ prompt.sent =>
               prompt = RenderPrompt(asset_metadata, Joined, blockchain_data)
        /\ ReturnedFromText =>
               result = Synthesize(asset_id, result_text, payload, asset_metadata)

\* a call returned a signal after its tasks completed in the reverse of the
\* order of the awaits, the first of them with a failure
C24_Witness ==
    /\ ReturnedFromText
    /\ completed = <<"nft", "economic", "sentiment", "auction">>
    /\ task["nft"].rec.error
    /\ ~task["auction"].rec.error

(***************************************************************************)
(* C25.  The prompt sent to the generation call has the asset section and  *)
(* one section per source, and the section of a failed source shows the    *)
(* failure (the dumped {"error": reason} dict counts as the marker), while *)
(* the section of a source that answered shows no failure.                 *)
(***************************************************************************)
SectionOf(s) ==
    CASE s = "auction" -> prompt.market_data
      [] s = "sentiment" -> prompt.sentiment_data
      [] s = "economic" -> prompt.economic_data
      [] s = "nft" -> prompt.blockchain_data

MarkedFailed(section) == "error" \in DOMAIN section /\ section.error

C25_FailedSourceMarkedInPrompt ==
    prompt.sent =>
        /\ prompt.asset_info = asset_metadata
        /\ \A s \in Sources : ctx[s].error <=> MarkedFailed(SectionOf(s))

(***************************************************************************)
(* C26.  The document built for an observation posted to                   *)
(* /api/datasource/update with source_name s, payload p and timestamp t    *)
(* has source s and timestamp t, and its text is derived from p alone.     *)
(***************************************************************************)
C26_DocumentCarriesCallerFields ==
    (api.route = "update" /\ Accepted(api)) =>
        /\ api.document.metadata.source = api.body.source_name
        /\ api.document.metadata.timestamp = api.body.timestamp
        /\ api.document.text.of = api.body.data

(***************************************************************************)
(* C27.  Serving a request never changes the asset catalog: no step of a   *)
(* POST /api/price request, with or without current_price, writes into    *)
(* the catalog entry it read.                                              *)
(***************************************************************************)
C27_CatalogNeverMutated == [][asset_db' = asset_db]_vars

(***************************************************************************)
(* C28.  The document list is append-only under update_knowledge_base:     *)
(* while a call runs and when it has returned, the list is the list the    *)
(* call found, or that list with the call's document appended at its end.  *)
(***************************************************************************)
C28_AppendOnly ==
    (EngineAlive /\ ukb.pc # "none") =>
        \/ documents = ukb.before.documents
        \/ documents = Append(ukb.before.documents, ukb.text)

\* a call that found a document of another text has appended its own and
\* is about to return
C28_Witness ==
    /\ EngineAlive
    /\ ukb.pc = "done"
    /\ Len(ukb.before.documents) > 0
    /\ ukb.before.documents[1] # ukb.text
    /\ Len(documents) = Len(ukb.before.documents) + 1

(***************************************************************************)
(* C29.  No step of a pricing call, on the parsed, the fallback or the     *)
(* error path, changes the in-memory index, the document list or the two   *)
(* files, also while update_knowledge_base calls run in between.           *)
(***************************************************************************)
C29_PricingLeavesStoreAlone ==
    [][pricevars' # pricevars => UNCHANGED <<index, documents, disk>>]_vars

\* a pricing call has returned a parsed signal while a store call is
\* between its two writes
C29_Witness ==
    /\ ReturnedFromText
    /\ ValidJsonOutput(result_text)
    /\ IsSignal
    /\ ukb.pc = "write_documents"
    /\ Len(documents) > 0

(***************************************************************************)
(* C30.  When an update_knowledge_base call returns success, both files    *)
(* hold every record memory holds, the record of an earlier call of the    *)
(* same engine whose write failed included.                                *)
(***************************************************************************)
C30_NextSuccessRepairsFiles ==
    (EngineAlive /\ ukb.pc = "done" /\ IsSuccess(ukb.result)) =>
        /\ PairReadable
        /\ disk.documents.v = documents
        /\ disk.index.v = index

\* a call returns success on an engine one of whose earlier calls appended
\* its record and then failed (index.add cannot fail on this index, so it
\* failed in a write): memory holds that record next to the new one
C30_Witness ==
    /\ EngineAlive
    /\ ukb.pc = "done"
    /\ IsSuccess(ukb.result)
    /\ log.failed
    /\ index.d = VectorDimension
    /\ embedding_model
    /\ Len(documents) = boot.documents + Len(log.succeeded) + 2

====
